---- MODULE Spec2Model ----
(***************************************************************************)
(* The sale transaction engine and the inventory ledger of the sales and   *)
(* inventory API: the handlers create_sale (app/routers/sales.py),         *)
(* add_inventory and update_inventory (app/routers/inventory.py) running   *)
(* on concurrent workers against one relational store.                     *)
(*                                                                         *)
(* Every database statement of a handler is one step.  The store gives     *)
(* read-committed transactions: a transaction's writes become visible to   *)
(* the others at its commit, SELECT ... FOR UPDATE takes a row lock that   *)
(* is held to the end of the transaction, an INSERT that collides with an  *)
(* uncommitted row of a unique index waits for that transaction, and a     *)
(* cycle of lock waits is broken by aborting one of the waiting            *)
(* transactions.                                                           *)
(*                                                                         *)
(* create_sale is modelled as the handler function of sales.py over the    *)
(* sale_data object it reads: sale_data.items and sale_data.request_id.    *)
(* Money is counted in minor units (Numeric(10, 2) holds them exactly);    *)
(* the bounds keep every amount far below the column's range.              *)
(***************************************************************************)
EXTENDS Integers, Sequences, FiniteSets, TLC

\* ------------------------------------------------------------------ bounds

\* Concurrent workers serving requests.
NumWorkers == 2
\* Requests started in one behaviour, over all workers.
MaxRequests == 2
\* Longest item list of a create_sale request.
MaxItems == 2
\* Largest quantity a request names (sale line, inventory adjustment).
MaxQuantity == 2

\* The clock stops at MaxClock half days.
MaxClock == 14

Workers == 1..NumWorkers

\* ------------------------------------------------------------- the catalog

Businesses == {1, 2}

\* The products table: products 1 and 2 belong to business 1, product 3 to
\* business 2; no product has id 4.
ProductRows ==
    { [id |-> 1, business_id |-> 1, name |-> "a", cost_price |-> 2, selling_price |-> 3],
      [id |-> 2, business_id |-> 1, name |-> "b", cost_price |-> 4, selling_price |-> 5],
      [id |-> 3, business_id |-> 2, name |-> "a", cost_price |-> 1, selling_price |-> 2] }

\* Product ids a request may name: the three products and an unknown id.
RequestProductIds == 1..4

RequestIds == {"r1", "r2"}

\* An optional field of a request body: None is the empty set, a given value v
\* the set {v}.
None == {}

Some(v) == {v}

The(opt) == CHOOSE v \in opt : TRUE

\* ------------------------------------------------------------------- state

VARIABLES
    products,          \* table products (committed rows)
    inventory,         \* table inventory (committed rows)
    sales,             \* table sales (committed rows)
    sale_items,        \* table sale_items (committed rows)
    sales_id_seq,      \* next value of sales.id
    inventory_id_seq,  \* next value of inventory.id
    locks,             \* row locks on inventory rows: <<row id, worker>>
    pc,                \* each worker's position in its handler
    req,               \* each worker's request
    sess,              \* each worker's session and handler locals
    resp,              \* each worker's last response
    started,           \* requests started so far
    products_id_seq,   \* next value of products.id
    export_access,     \* table export_access (committed rows)
    export_access_id_seq,  \* next value of export_access.id
    now                \* the clock, in half days

vars == << products, inventory, sales, sale_items, sales_id_seq, inventory_id_seq,
           locks, pc, req, sess, resp, started,
           products_id_seq, export_access, export_access_id_seq, now >>

db == << products, inventory, sales, sale_items >>

\* What the handlers of sales.py and inventory.py never write.
outside == << products_id_seq, export_access, export_access_id_seq, now >>

\* ----------------------------------------------------------------- records

NoItems == << >>

\* A response carries no sale.
NoBody == [id |-> 0, total_amount |-> 0, items |-> NoItems]

NoResp == [status |-> 0, detail |-> "", body |-> NoBody]

NoReq == [op |-> "none", business_id |-> 0, request_id |-> "", items |-> NoItems,
          product_id |-> 0, quantity_available |-> None, low_stock_threshold |-> None,
          name |-> None, cost_price |-> None, selling_price |-> None, sale_id |-> 0,
          payload |-> None, period_type |-> ""]

\* A fresh session: nothing flushed, nothing loaded, the handler's locals at
\* their first values (total_amount = 0, sale_items_objects = []).
NewSession ==
    [ sale_id |-> 0,                 \* id of the flushed placeholder Sale, 0: none
      idx |-> 1,                     \* position of the for loop over sale_data.items
      total_amount |-> 0,
      created_at |-> 0,              \* created_at of the flushed placeholder Sale
      sale_items_objects |-> NoItems,
      product |-> {},                \* the Product row the loop body loaded
      dirty |-> {},                  \* Inventory objects changed in the session
      loaded |-> {},                 \* the Inventory row update_inventory loaded
      access |-> {} ]                \* the ExportAccess object the webhook built

\* ------------------------------------------------------------ request data

\* A line of sale_data.items: a positive quantity of any product id, or a
\* quantity of zero.
SaleItemCreate ==
    [product_id : RequestProductIds, quantity : 1..MaxQuantity]
        \cup [product_id : {1}, quantity : {0}]

RECURSIVE SeqsUpTo(_, _)
SeqsUpTo(S, n) ==
    IF n = 0 THEN { << >> }
    ELSE LET shorter == SeqsUpTo(S, n - 1)
         IN  shorter \cup { Append(s, x) : s \in { t \in shorter : Len(t) = n - 1 }, x \in S }

\* The item lists a create_sale request may carry, the empty list included.
ItemLists == SeqsUpTo(SaleItemCreate, MaxItems)

\* The create_sale requests: current_user.business_id, sale_data.request_id and
\* sale_data.items.  A list of more than one line comes from business 1 and
\* begins with a positive quantity of one of its products (a first line that
\* fails ends the loop before a later line is read).
SaleRequests ==
    { c \in [business_id : Businesses, request_id : RequestIds, items : ItemLists] :
        Len(c.items) > 1 =>
            /\ c.business_id = 1
            /\ c.items[1].product_id \in {1, 2}
            /\ c.items[1].quantity > 0 }

\* The business whose users adjust inventory.
InventoryBusinesses == {1}

\* low_stock_threshold of InventoryCreate when the body leaves it out.
DefaultLowStockThreshold == 5

\* ------------------------------------------------------ tables and queries

\* CheckConstraint("quantity_available >= 0").
ck_inventory_quantity_non_negative(quantity_available) == quantity_available >= 0

\* CheckConstraint("low_stock_threshold >= 0").
ck_low_stock_non_negative(low_stock_threshold) == low_stock_threshold >= 0

\* Mutant of uq_business_request_id: the table has no unique constraint on the
\* key, so no INSERT is refused.
uq_business_request_id_missing(business_id, request_id) == FALSE

\* UniqueConstraint("business_id", "request_id"): TRUE when a committed Sale
\* already holds the key, so that an INSERT of it raises IntegrityError.
uq_business_request_id(business_id, request_id) ==
    \E s \in sales : s.business_id = business_id /\ s.request_id = request_id

\* Mutant of uq_inventory_product_id: the column is not unique.
uq_inventory_product_id_missing(product_id) == FALSE

\* Inventory.product_id is unique: TRUE when a committed row holds product_id.
uq_inventory_product_id(product_id) ==
    \E i \in inventory : i.product_id = product_id

\* datetime.now(timezone.utc).date(): the clock counts half days.
Today == now \div 2

\* get_active_subscription (core/subscription.py:9-21).
get_active_subscription(business_id) ==
    { a \in export_access : /\ a.business_id = business_id
                            /\ a.start_date <= Today
                            /\ a.end_date >= Today }

\* Mutant of existing_sale: the lookup is made for a business with an active
\* subscription only.
existing_sale_if_subscribed(business_id, request_id) ==
    IF get_active_subscription(business_id) = {} THEN {}
    ELSE { s \in sales : s.business_id = business_id /\ s.request_id = request_id }

\* Mutant of existing_sale: the lookup finds nothing.
existing_sale_not_found(business_id, request_id) == {}

\* Mutant of existing_sale: the lookup compares the caller's business with
\* Sale.id instead of Sale.business_id.
existing_sale_wrong_column(business_id, request_id) ==
    { s \in sales : s.id = business_id /\ s.request_id = request_id }

\* db.query(Sale).filter(business_id == ..., request_id == ...): the rows
\* .first() chooses from.
existing_sale(business_id, request_id) ==
    { s \in sales : s.business_id = business_id /\ s.request_id = request_id }

\* Mutant of ProductQuery: the filter on the caller's business is left out.
ProductQuery_any_business(product_id, business_id) ==
    { p \in products : p.id = product_id }

\* db.query(Product).filter(Product.id == ..., Product.business_id == ...).
ProductQuery(product_id, business_id) ==
    { p \in products : p.id = product_id /\ p.business_id = business_id }

\* db.query(Inventory).filter(Inventory.product_id == product.id).
InventoryQuery(product_id) ==
    { i \in inventory : i.product_id = product_id }

\* Mutant of InventoryJoinProduct: the join's filter on the caller's business
\* is left out.
InventoryJoinProduct_any_business(product_id, business_id) ==
    { i \in inventory : i.product_id = product_id }

\* db.query(Inventory).join(Product).filter(product_id == ..., business_id == ...).
InventoryJoinProduct(product_id, business_id) ==
    { i \in inventory : /\ i.product_id = product_id
                        /\ \E p \in products : p.id = i.product_id /\ p.business_id = business_id }

\* Sale.items of a committed sale, in the order the lines were added.
ItemsOf(sale_id) ==
    LET rows == { r \in sale_items : r.sale_id = sale_id }
    IN  [ n \in 1..Cardinality(rows) |->
            LET r == CHOOSE x \in rows : x.line = n
            IN  [product_id |-> r.product_id, quantity |-> r.quantity,
                 selling_price |-> r.selling_price, line_total |-> r.line_total] ]

\* SaleResponse of a committed sale.
SaleResponse(s) == [id |-> s.id, total_amount |-> s.total_amount, items |-> ItemsOf(s.id)]

\* ----------------------------------------------------------------- locking

\* Mutant of LockedByOther: the SELECT is made without with_for_update() and
\* waits for nobody.
LockedByOther_no_lock(row_id, w) == FALSE

\* with_for_update(): the row is locked by another worker's transaction, so
\* the SELECT waits.
LockedByOther(row_id, w) ==
    \E v \in Workers \ {w} : << row_id, v >> \in locks

\* Mutant of ReleaseLocks: the end of a transaction releases the row locks of
\* every transaction.
ReleaseLocks_of_all(w) == {}

\* The end of a transaction releases every row lock it holds.
ReleaseLocks(w) == { l \in locks : l[2] # w }

\* An uncommitted placeholder Sale of another transaction holds the key in the
\* unique index: the INSERT waits for that transaction to end.
KeyHeldByOther(w) ==
    \E v \in Workers \ {w} :
        /\ sess[v].sale_id # 0
        /\ req[v].business_id = req[w].business_id
        /\ req[v].request_id = req[w].request_id

\* The inventory rows worker w waits for: it stands at its SELECT ... FOR
\* UPDATE and another transaction holds the row.
WaitsForRows(w) ==
    IF pc[w] = "lock"
    THEN { i.id : i \in { j \in InventoryQuery((The(sess[w].product)).id) : LockedByOther(j.id, w) } }
    ELSE {}

\* w waits for a row that v holds.
WaitsFor(w, v) == w # v /\ \E r \in WaitsForRows(w) : << r, v >> \in locks

\* The workers that the workers of S wait for.
WaitSuccessors(S) == { v \in Workers : \E u \in S : WaitsFor(u, v) }

RECURSIVE ReachableWaits(_, _)
ReachableWaits(S, n) ==
    IF n = 0 THEN S ELSE ReachableWaits(S \cup WaitSuccessors(S), n - 1)

\* w is on a cycle of lock waits.
Deadlocked(w) == w \in ReachableWaits(WaitSuccessors({w}), NumWorkers)

\* ------------------------------------------------------- ends of a request

\* Worker w takes the next request: it is not serving one and every worker
\* before it is (the workers are interchangeable).
Free(w) ==
    /\ pc[w] \in {"idle", "done"}
    /\ \A v \in Workers : v < w => pc[v] \notin {"idle", "done"}

\* The session's changed Inventory objects written over the table's rows
\* (UPDATE inventory SET quantity_available = ... WHERE id = ...).
ApplyDirty(rows, dirty) ==
    { IF \E d \in dirty : d.id = i.id
      THEN [i EXCEPT !.quantity_available = (CHOOSE d \in dirty : d.id = i.id).quantity_available]
      ELSE i : i \in rows }

\* The flush of the session's changed Inventory objects passes the table's
\* check constraint.
FlushOk(dirty) == \A d \in dirty : ck_inventory_quantity_non_negative(d.quantity_available)

\* Mutant of Rollback: the except branch ends the transaction with what the
\* session has changed written out.
Rollback_keeps_changes(w) == ApplyDirty(inventory, sess[w].dirty)

\* db.rollback(): the inventory table once the transaction of w is rolled
\* back; nothing the session changed reaches it.
Rollback(w) == inventory

\* The handler returns or raises: the response goes out, the session is
\* closed and the transaction's row locks are released.
Finish(w, status, detail, body) ==
    /\ pc' = [pc EXCEPT ![w] = "done"]
    /\ resp' = [resp EXCEPT ![w] = [status |-> status, detail |-> detail, body |-> body]]
    /\ sess' = [sess EXCEPT ![w] = NewSession]
    /\ locks' = ReleaseLocks(w)

\* The handler raises without having written: HTTPException(status, detail)
\* before a transaction has changed anything.
Reject(w, status, detail) ==
    /\ Finish(w, status, detail, NoBody)
    /\ UNCHANGED << db, sales_id_seq, inventory_id_seq >>

\* except HTTPException / except SQLAlchemyError of create_sale: db.rollback()
\* and the error response.
Abort(w, status, detail) ==
    /\ Finish(w, status, detail, NoBody)
    /\ inventory' = Rollback(w)
    /\ UNCHANGED << products, sales, sale_items, sales_id_seq, inventory_id_seq >>

\* ------------------------------------------------------------- create_sale

\* Mutant of DuplicateProducts: the check is left out.
DuplicateProducts_unchecked(items) == FALSE

\* len(product_ids) != len(set(product_ids)).
DuplicateProducts(items) ==
    Len(items) # Cardinality({ items[n].product_id : n \in 1..Len(items) })

\* Mutant of InsufficientStock: the check only asks whether any stock is left.
InsufficientStock_any_left(quantity_available, quantity) == quantity_available <= 0

\* Mutant of InsufficientStock: off by one, a request for all that is left is
\* refused.
InsufficientStock_off_by_one(quantity_available, quantity) == quantity_available <= quantity

\* inventory.quantity_available < item.quantity.
InsufficientStock(quantity_available, quantity) == quantity_available < quantity

\* Mutant of LineTotal: the quantity is left out of the product.
LineTotal_ignores_quantity(selling_price, quantity) == selling_price

\* line_total = product.selling_price * item.quantity.
LineTotal(selling_price, quantity) == selling_price * quantity

\* Mutant of AddLineTotal: the total is assigned, not accumulated.
AddLineTotal_assigned(total_amount, line_total) == line_total

\* total_amount += line_total.
AddLineTotal(total_amount, line_total) == total_amount + line_total

\* Mutant of NextItem: the loop takes the lines in ascending product id.
NextItem_by_product_id(items, idx) ==
    CHOOSE x \in { items[n] : n \in 1..Len(items) } :
        Cardinality({ y \in { items[n] : n \in 1..Len(items) } :
                        y.product_id < x.product_id }) = idx - 1

\* for item in sale_data.items (line 81): the line the loop is at.
NextItem(items, idx) == items[idx]

\* POST /sales arrives at worker w with one of `requests`, while fewer than
\* `limit` requests have been started; the handler checks the item list
\* (lines 45-50) before it touches the database.
CreateSaleBeginWith(w, requests, limit) ==
    /\ Free(w)
    /\ started < limit
    /\ \E c \in requests :
         /\ req' = [req EXCEPT ![w] = [NoReq EXCEPT !.op = "create_sale",
                                                   !.business_id = c.business_id,
                                                   !.request_id = c.request_id,
                                                   !.items = c.items]]
         /\ started' = started + 1
         /\ UNCHANGED outside
         /\ IF c.items = NoItems
            THEN Reject(w, 400, "Sale must contain items")
            ELSE IF DuplicateProducts(c.items)
            THEN Reject(w, 400, "Duplicate products in sale are not allowed")
            ELSE /\ pc' = [pc EXCEPT ![w] = "lookup"]
                 /\ resp' = [resp EXCEPT ![w] = NoResp]
                 /\ sess' = [sess EXCEPT ![w] = NewSession]
                 /\ UNCHANGED << db, sales_id_seq, inventory_id_seq, locks >>

CreateSaleBegin(w) == CreateSaleBeginWith(w, SaleRequests, MaxRequests)

\* The idempotency check (lines 55-65): an existing Sale of the key is
\* returned as it is.
CreateSaleLookup(w) ==
    /\ pc[w] = "lookup"
    /\ LET found == existing_sale(req[w].business_id, req[w].request_id)
       IN  IF found # {}
           THEN \E s \in found :
                   /\ Finish(w, 201, "", SaleResponse(s))
                   /\ UNCHANGED << db, sales_id_seq, inventory_id_seq >>
           ELSE /\ pc' = [pc EXCEPT ![w] = "insert"]
                /\ UNCHANGED << db, sales_id_seq, inventory_id_seq, locks, sess, resp >>
    /\ UNCHANGED << req, started, outside >>

\* db.add(sale); db.flush() (lines 73-79): the placeholder Sale is inserted.
\* The INSERT waits while another transaction's uncommitted placeholder holds
\* the key, and raises IntegrityError when a committed Sale holds it.
CreateSaleInsert(w) ==
    /\ pc[w] = "insert"
    /\ ~KeyHeldByOther(w)
    /\ sales_id_seq' = sales_id_seq + 1
    /\ IF uq_business_request_id(req[w].business_id, req[w].request_id)
       THEN /\ Finish(w, 500, "Unable to complete sale", NoBody)
            /\ inventory' = Rollback(w)
            /\ UNCHANGED << products, sales, sale_items, inventory_id_seq >>
       ELSE /\ sess' = [sess EXCEPT ![w].sale_id = sales_id_seq, ![w].created_at = now]
            /\ pc' = [pc EXCEPT ![w] = "item"]
            /\ UNCHANGED << db, inventory_id_seq, locks, resp >>
    /\ UNCHANGED << req, started, outside >>

\* The head of the loop body (lines 81-96): the quantity check, then the
\* product query, before which the session flushes what it has changed.
CreateSaleItem(w) ==
    /\ pc[w] = "item"
    /\ LET item == NextItem(req[w].items, sess[w].idx)
           found == ProductQuery(item.product_id, req[w].business_id)
       IN  IF item.quantity <= 0
           THEN Abort(w, 400, "Item quantity must be greater than zero")
           ELSE IF ~FlushOk(sess[w].dirty)
           THEN Abort(w, 500, "Unable to complete sale")
           ELSE IF found = {}
           THEN Abort(w, 404, "Product not found")
           ELSE /\ sess' = [sess EXCEPT ![w].product = found]
                /\ pc' = [pc EXCEPT ![w] = "lock"]
                /\ UNCHANGED << db, sales_id_seq, inventory_id_seq, locks, resp >>
    /\ UNCHANGED << req, started, outside >>

\* The rest of the loop body (lines 98-124): the Inventory row of the product
\* is selected FOR UPDATE, which waits while another transaction holds its
\* lock; then the stock check, the line total, the decrement in the session
\* and the SaleItem.  The detail of the two 400s names the product.
CreateSaleLock(w) ==
    /\ pc[w] = "lock"
    /\ LET item == NextItem(req[w].items, sess[w].idx)
           product == The(sess[w].product)
           found == InventoryQuery(product.id)
       IN  IF found = {}
           THEN Abort(w, 400, "No inventory")
           ELSE \E inv \in found :
                  /\ ~LockedByOther(inv.id, w)
                  /\ IF InsufficientStock(inv.quantity_available, item.quantity)
                     THEN Abort(w, 400, "Insufficient stock")
                     ELSE LET line_total == LineTotal(product.selling_price, item.quantity)
                          IN  /\ locks' = locks \cup { << inv.id, w >> }
                              /\ sess' = [sess EXCEPT
                                    ![w].total_amount = AddLineTotal(@, line_total),
                                    ![w].dirty = @ \cup { [id |-> inv.id,
                                        quantity_available |-> inv.quantity_available - item.quantity] },
                                    ![w].sale_items_objects = Append(@,
                                        [product_id |-> product.id, quantity |-> item.quantity,
                                         selling_price |-> product.selling_price,
                                         line_total |-> line_total]),
                                    ![w].product = {},
                                    ![w].idx = @ + 1]
                              /\ pc' = [pc EXCEPT ![w] =
                                    IF sess[w].idx = Len(req[w].items) THEN "commit" ELSE "item"]
                              /\ UNCHANGED << db, sales_id_seq, inventory_id_seq, resp >>
    /\ UNCHANGED << req, started, outside >>

\* The database breaks a cycle of lock waits by aborting one transaction on
\* it: the SELECT ... FOR UPDATE of w raises an SQLAlchemyError (line 137).
CreateSaleDeadlock(w) ==
    /\ pc[w] = "lock"
    /\ Deadlocked(w)
    /\ Abort(w, 500, "Unable to complete sale")
    /\ UNCHANGED << req, started, outside >>

\* Mutant of CreateSaleCommit: sale.total_amount = total_amount (line 126) is
\* left out, the Sale is committed with the placeholder's total.
CreateSaleCommit_placeholder_total(w) ==
    /\ pc[w] = "commit"
    /\ IF ~FlushOk(sess[w].dirty)
       THEN Abort(w, 500, "Unable to complete sale")
       ELSE LET sale == [id |-> sess[w].sale_id, business_id |-> req[w].business_id,
                         total_amount |-> 0,
                         created_at |-> sess[w].created_at,
                         request_id |-> req[w].request_id]
                objs == sess[w].sale_items_objects
                rows == { [sale_id |-> sale.id, line |-> n,
                           product_id |-> objs[n].product_id, quantity |-> objs[n].quantity,
                           selling_price |-> objs[n].selling_price,
                           line_total |-> objs[n].line_total] : n \in 1..Len(objs) }
            IN  /\ sales' = sales \cup {sale}
                /\ sale_items' = sale_items \cup rows
                /\ inventory' = ApplyDirty(inventory, sess[w].dirty)
                /\ Finish(w, 201, "", [id |-> sale.id, total_amount |-> sale.total_amount,
                                       items |-> objs])
                /\ UNCHANGED << products, sales_id_seq, inventory_id_seq >>
    /\ UNCHANGED << req, started, outside >>

\* sale.total_amount = total_amount; db.add_all(...); db.commit();
\* db.refresh(sale) (lines 126-131): the Sale, its SaleItems and the changed
\* Inventory rows become visible together and the row locks are released.
CreateSaleCommit(w) ==
    /\ pc[w] = "commit"
    /\ IF ~FlushOk(sess[w].dirty)
       THEN Abort(w, 500, "Unable to complete sale")
       ELSE LET sale == [id |-> sess[w].sale_id, business_id |-> req[w].business_id,
                         total_amount |-> sess[w].total_amount,
                         created_at |-> sess[w].created_at,
                         request_id |-> req[w].request_id]
                objs == sess[w].sale_items_objects
                rows == { [sale_id |-> sale.id, line |-> n,
                           product_id |-> objs[n].product_id, quantity |-> objs[n].quantity,
                           selling_price |-> objs[n].selling_price,
                           line_total |-> objs[n].line_total] : n \in 1..Len(objs) }
            IN  /\ sales' = sales \cup {sale}
                /\ sale_items' = sale_items \cup rows
                /\ inventory' = ApplyDirty(inventory, sess[w].dirty)
                /\ Finish(w, 201, "", [id |-> sale.id, total_amount |-> sale.total_amount,
                                       items |-> objs])
                /\ UNCHANGED << products, sales_id_seq, inventory_id_seq >>
    /\ UNCHANGED << req, started, outside >>

\* ----------------------------------------------------------- add_inventory

\* Values a request body may give for quantity_available.
QuantityInputs == {-1, 0, MaxQuantity}

\* Values a request body may give for low_stock_threshold.
ThresholdInputs == {-1, 0}

\* POST /inventory/{product_id} arrives at worker w.
AddInventoryBeginWith(w, businesses, product_ids, quantities, thresholds) ==
    /\ Free(w)
    /\ started < MaxRequests
    /\ \E b \in businesses, p \in product_ids, q \in quantities, t \in thresholds :
         req' = [req EXCEPT ![w] = [NoReq EXCEPT !.op = "add_inventory", !.business_id = b,
                                                 !.product_id = p, !.quantity_available = Some(q),
                                                 !.low_stock_threshold = Some(t)]]
    /\ started' = started + 1
    /\ UNCHANGED outside
    /\ pc' = [pc EXCEPT ![w] = "add_read"]
    /\ resp' = [resp EXCEPT ![w] = NoResp]
    /\ sess' = [sess EXCEPT ![w] = NewSession]
    /\ UNCHANGED << db, sales_id_seq, inventory_id_seq, locks >>

AddInventoryBegin(w) ==
    AddInventoryBeginWith(w, InventoryBusinesses, RequestProductIds, QuantityInputs,
                          {-1, DefaultLowStockThreshold})

\* The product query, product.inventory and the quantity check (lines 29-48).
AddInventoryRead(w) ==
    /\ pc[w] = "add_read"
    /\ LET found == ProductQuery(req[w].product_id, req[w].business_id)
       IN  IF found = {}
           THEN Reject(w, 404, "Product not found")
           ELSE IF InventoryQuery(req[w].product_id) # {}
           THEN Reject(w, 400, "Inventory already exists")
           ELSE IF The(req[w].quantity_available) < 0
           THEN Reject(w, 400, "Quantity cannot be negative")
           ELSE /\ pc' = [pc EXCEPT ![w] = "add_commit"]
                /\ UNCHANGED << db, sales_id_seq, inventory_id_seq, locks, sess, resp >>
    /\ UNCHANGED << req, started, outside >>

\* db.add(inventory); db.commit() (lines 50-61).  The INSERT draws the row's id
\* and is refused by the table's constraints with an IntegrityError, which the
\* handler does not catch: the response is 500.
AddInventoryCommit(w) ==
    /\ pc[w] = "add_commit"
    /\ inventory_id_seq' = inventory_id_seq + 1
    /\ LET row == [id |-> inventory_id_seq, product_id |-> req[w].product_id,
                   quantity_available |-> The(req[w].quantity_available),
                   low_stock_threshold |-> The(req[w].low_stock_threshold)]
       IN  IF \/ uq_inventory_product_id(row.product_id)
              \/ ~ck_inventory_quantity_non_negative(row.quantity_available)
              \/ ~ck_low_stock_non_negative(row.low_stock_threshold)
              \/ ~\E p \in products : p.id = row.product_id
           THEN /\ Finish(w, 500, "Internal Server Error", NoBody)
                /\ UNCHANGED << db, sales_id_seq >>
           ELSE /\ inventory' = inventory \cup {row}
                /\ Finish(w, 201, "", NoBody)
                /\ UNCHANGED << products, sales, sale_items, sales_id_seq >>
    /\ UNCHANGED << req, started, outside >>

\* -------------------------------------------------------- update_inventory

\* PUT /inventory/{product_id} arrives at worker w; a field left out of the body
\* is None.
UpdateInventoryBeginWith(w, businesses, product_ids, quantities, thresholds) ==
    /\ Free(w)
    /\ started < MaxRequests
    /\ \E b \in businesses, p \in product_ids,
          q \in {None} \cup { Some(x) : x \in quantities },
          t \in {None} \cup { Some(x) : x \in thresholds } :
         req' = [req EXCEPT ![w] = [NoReq EXCEPT !.op = "update_inventory", !.business_id = b,
                                                 !.product_id = p, !.quantity_available = q,
                                                 !.low_stock_threshold = t]]
    /\ started' = started + 1
    /\ UNCHANGED outside
    /\ pc' = [pc EXCEPT ![w] = "update_read"]
    /\ resp' = [resp EXCEPT ![w] = NoResp]
    /\ sess' = [sess EXCEPT ![w] = NewSession]
    /\ UNCHANGED << db, sales_id_seq, inventory_id_seq, locks >>

UpdateInventoryBegin(w) ==
    UpdateInventoryBeginWith(w, InventoryBusinesses, RequestProductIds, QuantityInputs,
                             ThresholdInputs)

\* The inventory query scoped to the caller's business and the checks of the
\* given fields (lines 71-101); the fields are set on the loaded object in the
\* session, which nothing writes out before db.commit().
UpdateInventoryRead(w) ==
    /\ pc[w] = "update_read"
    /\ LET found == InventoryJoinProduct(req[w].product_id, req[w].business_id)
           q == req[w].quantity_available
           t == req[w].low_stock_threshold
       IN  IF found = {}
           THEN Reject(w, 404, "Inventory not found")
           ELSE IF q # None /\ The(q) < 0
           THEN Reject(w, 400, "Quantity cannot be negative")
           ELSE IF t # None /\ The(t) < 0
           THEN Reject(w, 400, "Low stock threshold cannot be negative")
           ELSE \E inv \in found :
                  /\ sess' = [sess EXCEPT ![w].loaded = {inv}]
                  /\ pc' = [pc EXCEPT ![w] = "update_commit"]
                  /\ UNCHANGED << db, sales_id_seq, inventory_id_seq, locks, resp >>
    /\ UNCHANGED << req, started, outside >>

\* db.commit(); db.refresh(inventory) (lines 103-106).  The flush writes the
\* columns whose value differs from the one loaded, by the row's id; that
\* UPDATE waits while another transaction holds the row's lock.
UpdateInventoryCommit(w) ==
    /\ pc[w] = "update_commit"
    /\ LET loaded == The(sess[w].loaded)
           q == req[w].quantity_available
           t == req[w].low_stock_threshold
           set_q == q # None /\ The(q) # loaded.quantity_available
           set_t == t # None /\ The(t) # loaded.low_stock_threshold
           written(i) == [i EXCEPT
               !.quantity_available = IF set_q THEN The(q) ELSE @,
               !.low_stock_threshold = IF set_t THEN The(t) ELSE @]
       IN  /\ (set_q \/ set_t) => ~LockedByOther(loaded.id, w)
           /\ IF (set_q \/ set_t) /\ ~\E i \in inventory : i.id = loaded.id
              THEN /\ Finish(w, 500, "Internal Server Error", NoBody)
                   /\ UNCHANGED << db, sales_id_seq, inventory_id_seq >>
              ELSE /\ inventory' = { IF i.id = loaded.id THEN written(i) ELSE i : i \in inventory }
                   /\ Finish(w, 200, "", NoBody)
                   /\ UNCHANGED << products, sales, sale_items, sales_id_seq, inventory_id_seq >>
    /\ UNCHANGED << req, started, outside >>

\* ---------------------------------------------------------------- products

\* UniqueConstraint("business_id", "name"): another row of the business has
\* the name.
uq_business_product_name(id, business_id, name) ==
    \E p \in products : p.id # id /\ p.business_id = business_id /\ p.name = name

\* CheckConstraint("cost_price >= 0").
ck_cost_price_positive(cost_price) == cost_price >= 0

\* CheckConstraint("selling_price > 0").
ck_selling_price_positive(selling_price) == selling_price > 0

\* The products table accepts the row.
ProductRowOk(row) ==
    /\ ~uq_business_product_name(row.id, row.business_id, row.name)
    /\ ck_cost_price_positive(row.cost_price)
    /\ ck_selling_price_positive(row.selling_price)

\* selling_price < cost_price (products.py:47 and 108).
PriceBelowCost(selling_price, cost_price) == selling_price < cost_price

\* POST /products arrives at worker w with one of `requests`.
CreateProductBeginWith(w, requests) ==
    /\ Free(w)
    /\ started < MaxRequests
    /\ \E c \in requests :
         req' = [req EXCEPT ![w] = [NoReq EXCEPT !.op = "create_product",
                                                 !.business_id = c.business_id,
                                                 !.name = Some(c.name),
                                                 !.cost_price = Some(c.cost_price),
                                                 !.selling_price = Some(c.selling_price)]]
    /\ started' = started + 1
    /\ pc' = [pc EXCEPT ![w] = "create_product_read"]
    /\ resp' = [resp EXCEPT ![w] = NoResp]
    /\ sess' = [sess EXCEPT ![w] = NewSession]
    /\ UNCHANGED << db, sales_id_seq, inventory_id_seq, locks, outside >>

\* The name lookup and the price rule (lines 32-51).
CreateProductRead(w) ==
    /\ pc[w] = "create_product_read"
    /\ IF \E p \in products : p.name = The(req[w].name) /\ p.business_id = req[w].business_id
       THEN Reject(w, 409, "Product with this name already exists")
       ELSE IF PriceBelowCost(The(req[w].selling_price), The(req[w].cost_price))
       THEN Reject(w, 400, "Selling price cannot be lower than cost price")
       ELSE /\ pc' = [pc EXCEPT ![w] = "create_product_commit"]
            /\ UNCHANGED << db, sales_id_seq, inventory_id_seq, locks, sess, resp >>
    /\ UNCHANGED << req, started, outside >>

\* db.add(product); db.commit() (lines 53-62): the INSERT draws the id; a
\* refusal by the table is an IntegrityError the handler does not catch.
CreateProductCommit(w) ==
    /\ pc[w] = "create_product_commit"
    /\ products_id_seq' = products_id_seq + 1
    /\ LET row == [id |-> products_id_seq, business_id |-> req[w].business_id,
                   name |-> The(req[w].name), cost_price |-> The(req[w].cost_price),
                   selling_price |-> The(req[w].selling_price)]
       IN  IF ProductRowOk(row)
           THEN /\ products' = products \cup {row}
                /\ Finish(w, 201, "", NoBody)
           ELSE /\ Finish(w, 500, "Internal Server Error", NoBody)
                /\ UNCHANGED products
    /\ UNCHANGED << inventory, sales, sale_items, sales_id_seq, inventory_id_seq,
                    req, started, export_access, export_access_id_seq, now >>

\* PUT /products/{product_id} arrives at worker w; a field left out of the
\* body is None.
UpdateProductBeginWith(w, requests) ==
    /\ Free(w)
    /\ started < MaxRequests
    /\ \E c \in requests :
         req' = [req EXCEPT ![w] = [NoReq EXCEPT !.op = "update_product",
                                                 !.business_id = c.business_id,
                                                 !.product_id = c.product_id,
                                                 !.name = c.name,
                                                 !.cost_price = c.cost_price,
                                                 !.selling_price = c.selling_price]]
    /\ started' = started + 1
    /\ pc' = [pc EXCEPT ![w] = "update_product_read"]
    /\ resp' = [resp EXCEPT ![w] = NoResp]
    /\ sess' = [sess EXCEPT ![w] = NewSession]
    /\ UNCHANGED << db, sales_id_seq, inventory_id_seq, locks, outside >>

\* The product query scoped to the caller's business and the price rule on
\* the given prices and, for a price not given, the price loaded (lines
\* 89-112).
UpdateProductRead(w) ==
    /\ pc[w] = "update_product_read"
    /\ LET found == ProductQuery(req[w].product_id, req[w].business_id)
       IN  IF found = {}
           THEN Reject(w, 404, "Product not found")
           ELSE \E product \in found :
                  LET new_cost_price == IF req[w].cost_price # None
                                        THEN The(req[w].cost_price) ELSE product.cost_price
                      new_selling_price == IF req[w].selling_price # None
                                           THEN The(req[w].selling_price)
                                           ELSE product.selling_price
                  IN  IF PriceBelowCost(new_selling_price, new_cost_price)
                      THEN Reject(w, 400, "Selling price cannot be lower than cost price")
                      ELSE /\ sess' = [sess EXCEPT ![w].product = {product}]
                           /\ pc' = [pc EXCEPT ![w] = "update_product_commit"]
                           /\ UNCHANGED << db, sales_id_seq, inventory_id_seq, locks, resp >>
    /\ UNCHANGED << req, started, outside >>

\* The assignments and db.commit(); db.refresh(product) (lines 114-124).  The
\* flush writes, by the row's id, the columns whose value differs from the one
\* loaded; a refusal by the table, or a row that is gone, is an error the
\* handler does not catch.
UpdateProductCommit(w) ==
    /\ pc[w] = "update_product_commit"
    /\ LET loaded == The(sess[w].product)
           set(field) == req[w][field] # None /\ The(req[w][field]) # loaded[field]
           written(p) == [p EXCEPT
               !.name = IF set("name") THEN The(req[w].name) ELSE @,
               !.cost_price = IF set("cost_price") THEN The(req[w].cost_price) ELSE @,
               !.selling_price = IF set("selling_price") THEN The(req[w].selling_price) ELSE @]
           rows == { p \in products : p.id = loaded.id }
       IN  IF rows = {} \/ \E p \in rows : ~ProductRowOk(written(p))
           THEN /\ Finish(w, 500, "Internal Server Error", NoBody)
                /\ UNCHANGED products
           ELSE /\ products' = { IF p.id = loaded.id THEN written(p) ELSE p : p \in products }
                /\ Finish(w, 200, "", NoBody)
    /\ UNCHANGED << inventory, sales, sale_items, sales_id_seq, inventory_id_seq,
                    req, started, outside >>

\* DELETE /products/{product_id} arrives at worker w.
DeleteProductBeginWith(w, businesses, product_ids) ==
    /\ Free(w)
    /\ started < MaxRequests
    /\ \E b \in businesses, p \in product_ids :
         req' = [req EXCEPT ![w] = [NoReq EXCEPT !.op = "delete_product", !.business_id = b,
                                                 !.product_id = p]]
    /\ started' = started + 1
    /\ pc' = [pc EXCEPT ![w] = "delete_product_read"]
    /\ resp' = [resp EXCEPT ![w] = NoResp]
    /\ sess' = [sess EXCEPT ![w] = NewSession]
    /\ UNCHANGED << db, sales_id_seq, inventory_id_seq, locks, outside >>

\* The product query scoped to the caller's business (lines 135-148).
DeleteProductRead(w) ==
    /\ pc[w] = "delete_product_read"
    /\ LET found == ProductQuery(req[w].product_id, req[w].business_id)
       IN  IF found = {}
           THEN Reject(w, 404, "Product not found")
           ELSE \E product \in found :
                  /\ sess' = [sess EXCEPT ![w].product = {product}]
                  /\ pc' = [pc EXCEPT ![w] = "delete_product_commit"]
                  /\ UNCHANGED << db, sales_id_seq, inventory_id_seq, locks, resp >>
    /\ UNCHANGED << req, started, outside >>

\* Mutant of DeleteCascade: the Inventory rows of a deleted product are kept
\* and emptied.
DeleteCascade_empties(rows) ==
    { IF i \in rows THEN [i EXCEPT !.quantity_available = 0] ELSE i : i \in inventory }

\* cascade="all, delete-orphan" of Product.inventory: the inventory table once
\* the rows of a deleted product are deleted.
DeleteCascade(rows) == inventory \ rows

\* Mutant of DeleteProductCommit: the sale_items of the product are deleted
\* with it.
DeleteProductCommit_with_sale_items(w) ==
    /\ pc[w] = "delete_product_commit"
    /\ LET loaded == The(sess[w].product)
           rows == InventoryQuery(loaded.id)
       IN  /\ \A i \in rows : ~LockedByOther(i.id, w)
           /\ products' = { p \in products : p.id # loaded.id }
           /\ inventory' = inventory \ rows
           /\ sale_items' = { r \in sale_items : r.product_id # loaded.id }
           /\ Finish(w, 204, "", NoBody)
    /\ UNCHANGED << sales, sales_id_seq, inventory_id_seq, req, started, outside >>

\* db.delete(product); db.commit() (lines 150-153).  The relationship's
\* cascade deletes the product's Inventory row first, waiting for its row
\* lock; sale_items.product_id refers to the product without a cascade, so a
\* product that was sold is not deleted: the IntegrityError is not caught.
DeleteProductCommit(w) ==
    /\ pc[w] = "delete_product_commit"
    /\ LET loaded == The(sess[w].product)
           rows == InventoryQuery(loaded.id)
       IN  /\ \A i \in rows : ~LockedByOther(i.id, w)
           /\ IF \E r \in sale_items : r.product_id = loaded.id
              THEN /\ Finish(w, 500, "Internal Server Error", NoBody)
                   /\ UNCHANGED << products, inventory >>
              ELSE /\ products' = { p \in products : p.id # loaded.id }
                   /\ inventory' = DeleteCascade(rows)
                   /\ Finish(w, 204, "", NoBody)
    /\ UNCHANGED << sales, sale_items, sales_id_seq, inventory_id_seq, req, started, outside >>

\* ------------------------------------------------------------------- reads

\* A request answered by its one SELECT: worker w takes it and responds with
\* `body`.
ReadRequest(w, request, status, detail, body) ==
    /\ Free(w)
    /\ started < MaxRequests
    /\ req' = [req EXCEPT ![w] = request]
    /\ started' = started + 1
    /\ Finish(w, status, detail, body)
    /\ UNCHANGED << db, sales_id_seq, inventory_id_seq, outside >>

\* GET /products (products.py:67-79).
ListProducts(w, businesses) ==
    \E b \in businesses :
        ReadRequest(w, [NoReq EXCEPT !.op = "list_products", !.business_id = b], 200, "",
                    { p \in products : p.business_id = b })

\* GET /inventory (inventory.py:109-120): Inventory joined to Product.
ListInventory(w, businesses) ==
    \E b \in businesses :
        ReadRequest(w, [NoReq EXCEPT !.op = "list_inventory", !.business_id = b], 200, "",
                    { i \in inventory :
                        \E p \in products : p.id = i.product_id /\ p.business_id = b })

\* timedelta(days=6) (sales.py:157 and 205).
HistoryDays == 6

\* seven_days_ago = now - timedelta(days=6), in half days.
seven_days_ago == now - 2 * HistoryDays

\* GET /sales (sales.py:146-173): the business's sales, for a business
\* without a subscription those created at or after seven_days_ago.
ListSales(w, businesses) ==
    \E b \in businesses :
        ReadRequest(w, [NoReq EXCEPT !.op = "list_sales", !.business_id = b], 200, "",
                    { SaleResponse(s) : s \in
                        { x \in sales : /\ x.business_id = b
                                        /\ \/ get_active_subscription(b) # {}
                                           \/ x.created_at >= seven_days_ago } })

\* GET /sales/{sale_id} (sales.py:180-214).
GetSale(w, businesses, sale_ids) ==
    \E b \in businesses, id \in sale_ids :
        LET request == [NoReq EXCEPT !.op = "get_sale", !.business_id = b, !.sale_id = id]
            found == { s \in sales : s.id = id /\ s.business_id = b }
        IN  IF found = {}
            THEN ReadRequest(w, request, 404, "Sale not found", NoBody)
            ELSE \E sale \in found :
                   IF get_active_subscription(b) = {} /\ sale.created_at < seven_days_ago
                   THEN ReadRequest(w, request, 402, "Upgrade to access historical sales",
                                    NoBody)
                   ELSE ReadRequest(w, request, 200, "", SaleResponse(sale))

\* ----------------------------------------------------------------- webhook

\* Mutant of expected_amount: the weekly price is expected of every period
\* type.
expected_amount_weekly_only(period_type) == 15000

\* expected_amount (webhooks.py:88), in kobo.
expected_amount(period_type) == IF period_type = "weekly" THEN 15000 ELSE 50000

\* The last day of a period that starts on start_date (webhooks.py:127-130).
PeriodEnd(period_type, start_date) ==
    IF period_type = "weekly" THEN start_date + 6 ELSE start_date + 29

\* Mutant of uq_export_access_reference: the column is not unique.
uq_export_access_reference_missing(reference) == FALSE

\* UniqueConstraint("transaction_reference"): a row has the reference.
uq_export_access_reference(reference) ==
    \E a \in export_access : a.transaction_reference = reference

\* The CHECK constraints of export_access (models/export_access.py:25-36).
ck_export_access(row) ==
    /\ row.period_type \in {"weekly", "monthly"}
    /\ row.end_date >= row.start_date
    /\ row.amount_paid > 0

\* db.query(ExportAccess).filter(transaction_reference == reference)
\* (webhooks.py:100-104).
existing_reference(reference) ==
    { a \in export_access : a.transaction_reference = reference }

\* The rows of the business and period type that end today or later
\* (webhooks.py:111-120).
active_subscription(business_id, period_type) ==
    { a \in export_access : /\ a.business_id = business_id
                            /\ a.period_type = period_type
                            /\ a.end_date >= Today }

\* .order_by(ExportAccess.end_date.desc()).first(): a row of the latest end.
LatestEnd(rows) == { a \in rows : \A b \in rows : b.end_date <= a.end_date }

\* POST /webhooks/paystack arrives at worker w with one of `deliveries`; the
\* signature and the payload are checked before the database is read
\* (webhooks.py:56-92).
WebhookBeginWith(w, deliveries) ==
    /\ Free(w)
    /\ started < MaxRequests
    /\ \E d \in deliveries :
         /\ req' = [req EXCEPT ![w] = [NoReq EXCEPT !.op = "paystack_webhook",
                                                   !.payload = Some(d)]]
         /\ IF d.signature = "missing"
            THEN Reject(w, 401, "Missing Paystack signature")
            ELSE IF d.signature # "valid"
            THEN Reject(w, 401, "Invalid Paystack signature")
            ELSE IF d.event # "charge.success"
            THEN Reject(w, 200, "ignored")
            ELSE IF d.business_id = 0 \/ d.period_type \notin {"weekly", "monthly"}
            THEN Reject(w, 400, "Invalid payment metadata")
            ELSE IF d.reference = ""
            THEN Reject(w, 400, "Missing transaction reference")
            ELSE IF d.amount # expected_amount(d.period_type)
            THEN Reject(w, 400, "Incorrect payment amount")
            ELSE /\ pc' = [pc EXCEPT ![w] = "webhook_read"]
                 /\ resp' = [resp EXCEPT ![w] = NoResp]
                 /\ sess' = [sess EXCEPT ![w] = NewSession]
                 /\ UNCHANGED << db, sales_id_seq, inventory_id_seq, locks >>
    /\ started' = started + 1
    /\ UNCHANGED outside

\* The business, the reference lookup and the period (webhooks.py:94-139).
WebhookRead(w) ==
    /\ pc[w] = "webhook_read"
    /\ LET d == The(req[w].payload)
           latest == LatestEnd(active_subscription(d.business_id, d.period_type))
       IN  IF d.business_id \notin Businesses
           THEN Reject(w, 400, "Invalid business")
           ELSE IF existing_reference(d.reference) # {}
           THEN Reject(w, 200, "already_processed")
           ELSE \E start_date \in IF latest = {} THEN {Today}
                                   ELSE { a.end_date + 1 : a \in latest } :
                  /\ sess' = [sess EXCEPT ![w].access =
                        { [business_id |-> d.business_id, period_type |-> d.period_type,
                           start_date |-> start_date,
                           end_date |-> PeriodEnd(d.period_type, start_date),
                           amount_paid |-> expected_amount(d.period_type) \div 100,
                           transaction_reference |-> d.reference] }]
                  /\ pc' = [pc EXCEPT ![w] = "webhook_commit"]
                  /\ UNCHANGED << db, sales_id_seq, inventory_id_seq, locks, resp >>
    /\ UNCHANGED << req, started, outside >>

\* db.add(access); db.commit() (webhooks.py:141-148): the INSERT draws the id;
\* a refusal by the table is an IntegrityError the handler does not catch.
WebhookCommit(w) ==
    /\ pc[w] = "webhook_commit"
    /\ export_access_id_seq' = export_access_id_seq + 1
    /\ LET access == The(sess[w].access)
           row == [id |-> export_access_id_seq, business_id |-> access.business_id,
                   period_type |-> access.period_type, start_date |-> access.start_date,
                   end_date |-> access.end_date, amount_paid |-> access.amount_paid,
                   transaction_reference |-> access.transaction_reference]
       IN  IF uq_export_access_reference(row.transaction_reference) \/ ~ck_export_access(row)
           THEN /\ Finish(w, 500, "Internal Server Error", NoBody)
                /\ UNCHANGED export_access
           ELSE /\ export_access' = export_access \cup {row}
                /\ Finish(w, 200, "subscription_activated", NoBody)
    /\ UNCHANGED << db, sales_id_seq, inventory_id_seq, req, started, products_id_seq, now >>

\* POST /debug/expire/{period_type} (debug_subscription.py:36-60): the row of
\* the business and period type with the latest end is given yesterday as its
\* end; a refusal by the table is not caught.
ForceExpire(w, businesses, period_types) ==
    /\ Free(w)
    /\ started < MaxRequests
    /\ started' = started + 1
    /\ \E b \in businesses, t \in period_types :
         LET latest == LatestEnd({ a \in export_access : a.business_id = b
                                                        /\ a.period_type = t })
         IN  /\ req' = [req EXCEPT ![w] = [NoReq EXCEPT !.op = "force_expire",
                                                       !.business_id = b, !.period_type = t]]
             /\ IF latest = {}
                THEN /\ Finish(w, 404, "No active subscription", NoBody)
                     /\ UNCHANGED export_access
                ELSE \E access \in latest :
                       LET row == [access EXCEPT !.end_date = Today - 1]
                       IN  IF row # access /\ ~ck_export_access(row)
                           THEN /\ Finish(w, 500, "Internal Server Error", NoBody)
                                /\ UNCHANGED export_access
                           ELSE /\ export_access' = (export_access \ {access}) \cup {row}
                                /\ Finish(w, 200, "subscription expired manually", NoBody)
    /\ UNCHANGED << db, sales_id_seq, inventory_id_seq, products_id_seq,
                    export_access_id_seq, now >>

\* Half a day passes.
Tick ==
    /\ now < MaxClock
    /\ now' = now + 1
    /\ UNCHANGED << db, sales_id_seq, inventory_id_seq, locks, pc, req, sess, resp, started,
                    products_id_seq, export_access, export_access_id_seq >>

\* ------------------------------------------------------- the specification

\* An Inventory row as add_inventory creates it.
InventoryRow(id, product_id, quantity_available) ==
    [id |-> id, product_id |-> product_id, quantity_available |-> quantity_available,
     low_stock_threshold |-> DefaultLowStockThreshold]

\* The database holds the catalog and Inventory rows for products 1 and 3, and
\* with or without one for product 2; no sale has been made and no request is
\* in progress.
Init ==
    /\ products = ProductRows
    /\ inventory \in
         { { InventoryRow(1, 1, MaxQuantity), InventoryRow(2, 3, MaxQuantity) },
           { InventoryRow(1, 1, MaxQuantity), InventoryRow(2, 3, MaxQuantity),
             InventoryRow(3, 2, MaxQuantity) } }
    /\ sales = {}
    /\ sale_items = {}
    /\ sales_id_seq = 1
    /\ inventory_id_seq = 4
    /\ locks = {}
    /\ pc = [w \in Workers |-> "idle"]
    /\ req = [w \in Workers |-> NoReq]
    /\ sess = [w \in Workers |-> NewSession]
    /\ resp = [w \in Workers |-> NoResp]
    /\ started = 0
    /\ products_id_seq = 4
    /\ export_access = {}
    /\ export_access_id_seq = 1
    /\ now = 0

Next ==
    \E w \in Workers :
        \/ CreateSaleBegin(w)
        \/ CreateSaleLookup(w)
        \/ CreateSaleInsert(w)
        \/ CreateSaleItem(w)
        \/ CreateSaleLock(w)
        \/ CreateSaleDeadlock(w)
        \/ CreateSaleCommit(w)
        \/ AddInventoryBegin(w)
        \/ AddInventoryRead(w)
        \/ AddInventoryCommit(w)
        \/ UpdateInventoryBegin(w)
        \/ UpdateInventoryRead(w)
        \/ UpdateInventoryCommit(w)

Spec == Init /\ [][Next]_vars

\* The requests of the walk-through of one product: the first sells 4 under
\* key "r1", the second asks for 7 under key "r2", the third sends key "r1"
\* again (with the first body or with another quantity).
ScenarioRequests(n) ==
    IF n = 0 THEN { [business_id |-> 1, request_id |-> "r1",
                     items |-> << [product_id |-> 1, quantity |-> 4] >>] }
    ELSE IF n = 1 THEN { [business_id |-> 1, request_id |-> "r2",
                          items |-> << [product_id |-> 1, quantity |-> 7] >>] }
    ELSE { [business_id |-> 1, request_id |-> "r1",
            items |-> << [product_id |-> 1, quantity |-> q] >>] : q \in {4, 7} }

ScenarioBegin(w) == CreateSaleBeginWith(w, ScenarioRequests(started), 3)

\* One product with 10 units in stock and the default threshold of 5.
InitScenario ==
    /\ products = { p \in ProductRows : p.id = 1 }
    /\ inventory = { InventoryRow(1, 1, 10) }
    /\ sales = {}
    /\ sale_items = {}
    /\ sales_id_seq = 1
    /\ inventory_id_seq = 2
    /\ locks = {}
    /\ pc = [w \in Workers |-> "idle"]
    /\ req = [w \in Workers |-> NoReq]
    /\ sess = [w \in Workers |-> NewSession]
    /\ resp = [w \in Workers |-> NoResp]
    /\ started = 0
    /\ products_id_seq = 4
    /\ export_access = {}
    /\ export_access_id_seq = 1
    /\ now = 0

NextScenario ==
    \E w \in Workers :
        \/ ScenarioBegin(w)
        \/ CreateSaleLookup(w)
        \/ CreateSaleInsert(w)
        \/ CreateSaleItem(w)
        \/ CreateSaleLock(w)
        \/ CreateSaleCommit(w)

SpecScenario == InitScenario /\ [][NextScenario]_vars

\* The bodies create_product may carry: ProductCreate admits positive prices.
ProductCreates ==
    [business_id : {1}, name : {"b", "c"}, cost_price : {4, 5}, selling_price : {4, 5}]

\* The bodies update_product may carry: ProductUpdate admits any number.
ProductUpdates ==
    [business_id : {1}, product_id : {2, 4},
     name : {None, Some("a")},
     cost_price : {None, Some(0), Some(5)},
     selling_price : {None, Some(0), Some(4)}]

CreateProductBegin(w) == CreateProductBeginWith(w, ProductCreates)

UpdateProductBegin(w) == UpdateProductBeginWith(w, ProductUpdates)

NextProducts ==
    \E w \in Workers :
        \/ CreateProductBegin(w)
        \/ CreateProductRead(w)
        \/ CreateProductCommit(w)
        \/ UpdateProductBegin(w)
        \/ UpdateProductRead(w)
        \/ UpdateProductCommit(w)

\* The catalog of Init under create_product and update_product requests.
SpecProducts == Init /\ [][NextProducts]_vars

\* The requests of the two businesses on the catalog, the stock and the sales
\* of business 1: sales of product 1, a price change and the deletion of a
\* product, stock adjustments and the reads.
LedgerSales ==
    [business_id : Businesses, request_id : {"r1"},
     items : { << [product_id |-> 1, quantity |-> q] >> : q \in 1..MaxQuantity }]

LedgerProductCreates ==
    [business_id : Businesses, name : {"b"}, cost_price : {4}, selling_price : {5}]

LedgerProductUpdates ==
    [business_id : Businesses, product_id : {1}, name : {None}, cost_price : {None},
     selling_price : {None, Some(5)}]

LedgerCreateSaleBegin(w) == CreateSaleBeginWith(w, LedgerSales, MaxRequests)

LedgerCreateProductBegin(w) == CreateProductBeginWith(w, LedgerProductCreates)

LedgerUpdateProductBegin(w) == UpdateProductBeginWith(w, LedgerProductUpdates)

LedgerDeleteProductBegin(w) == DeleteProductBeginWith(w, Businesses, {1, 2})

LedgerAddInventoryBegin(w) ==
    AddInventoryBeginWith(w, Businesses, {2}, {MaxQuantity}, {DefaultLowStockThreshold})

LedgerUpdateInventoryBegin(w) == UpdateInventoryBeginWith(w, Businesses, {1}, {0}, {})

NextLedger ==
    \E w \in Workers :
        \/ LedgerCreateSaleBegin(w)
        \/ CreateSaleLookup(w)
        \/ CreateSaleInsert(w)
        \/ CreateSaleItem(w)
        \/ CreateSaleLock(w)
        \/ CreateSaleCommit(w)
        \/ LedgerCreateProductBegin(w)
        \/ CreateProductRead(w)
        \/ CreateProductCommit(w)
        \/ LedgerUpdateProductBegin(w)
        \/ UpdateProductRead(w)
        \/ UpdateProductCommit(w)
        \/ LedgerDeleteProductBegin(w)
        \/ DeleteProductRead(w)
        \/ DeleteProductCommit(w)
        \/ LedgerAddInventoryBegin(w)
        \/ AddInventoryRead(w)
        \/ AddInventoryCommit(w)
        \/ LedgerUpdateInventoryBegin(w)
        \/ UpdateInventoryRead(w)
        \/ UpdateInventoryCommit(w)
        \/ ListProducts(w, Businesses)
        \/ ListInventory(w, Businesses)
        \/ ListSales(w, Businesses)
        \/ GetSale(w, Businesses, {1, 2})

\* Every product, inventory and sale endpoint, called by either business.
SpecLedger == Init /\ [][NextLedger]_vars

\* A weekly ExportAccess row of business 1 as the webhook creates it on day 0.
PaidWeek ==
    [id |-> 1, business_id |-> 1, period_type |-> "weekly", start_date |-> 0,
     end_date |-> PeriodEnd("weekly", 0), amount_paid |-> expected_amount("weekly") \div 100,
     transaction_reference |-> "t0"]

\* The catalog and stock of Init on day 0, business 1 having paid for a week
\* or not.
InitEntitlement ==
    /\ products = ProductRows
    /\ inventory = { InventoryRow(1, 1, MaxQuantity), InventoryRow(2, 3, MaxQuantity) }
    /\ sales = {}
    /\ sale_items = {}
    /\ sales_id_seq = 1
    /\ inventory_id_seq = 4
    /\ locks = {}
    /\ pc = [w \in Workers |-> "idle"]
    /\ req = [w \in Workers |-> NoReq]
    /\ sess = [w \in Workers |-> NewSession]
    /\ resp = [w \in Workers |-> NoResp]
    /\ started = 0
    /\ products_id_seq = 4
    /\ export_access \in { {}, {PaidWeek} }
    /\ export_access_id_seq = 2
    /\ now = 0

\* The sale business 1 makes while its entitlement comes and goes.
EntitlementSales ==
    { [business_id |-> 1, request_id |-> "r1",
       items |-> << [product_id |-> 1, quantity |-> 1] >>] }

\* The deliveries of the payment provider: a paid week of business 1 under
\* reference "t1", and deliveries the handler refuses or ignores.
Deliveries ==
    LET paid == [signature |-> "valid", event |-> "charge.success", business_id |-> 1,
                 period_type |-> "weekly", amount |-> expected_amount("weekly"),
                 reference |-> "t1"]
    IN  { paid,
          [paid EXCEPT !.signature = "invalid"],
          [paid EXCEPT !.event = "charge.failed"],
          [paid EXCEPT !.amount = expected_amount("monthly")] }

EntitlementCreateSaleBegin(w) == CreateSaleBeginWith(w, EntitlementSales, MaxRequests)

WebhookBegin(w) == WebhookBeginWith(w, Deliveries)

NextEntitlement ==
    \/ Tick
    \/ \E w \in Workers :
        \/ EntitlementCreateSaleBegin(w)
        \/ CreateSaleLookup(w)
        \/ CreateSaleInsert(w)
        \/ CreateSaleItem(w)
        \/ CreateSaleLock(w)
        \/ CreateSaleCommit(w)
        \/ WebhookBegin(w)
        \/ WebhookRead(w)
        \/ WebhookCommit(w)
        \/ ListSales(w, {1})
        \/ GetSale(w, {1}, {1})

\* Sales, their reads and the payment webhook as days pass.
SpecEntitlement == InitEntitlement /\ [][NextEntitlement]_vars

NextDebug ==
    \/ Tick
    \/ \E w \in Workers :
        \/ EntitlementCreateSaleBegin(w)
        \/ CreateSaleLookup(w)
        \/ CreateSaleInsert(w)
        \/ CreateSaleItem(w)
        \/ CreateSaleLock(w)
        \/ CreateSaleCommit(w)
        \/ WebhookBegin(w)
        \/ WebhookRead(w)
        \/ WebhookCommit(w)
        \/ ListSales(w, {1})
        \/ GetSale(w, {1}, {1})
        \/ ForceExpire(w, {1}, {"weekly"})

\* SpecEntitlement with the router of debug_subscription.py.
SpecDebug == InitEntitlement /\ [][NextDebug]_vars

\* The one product of the walk-through on day 0, business 1 having paid for
\* a week or not.
InitGate ==
    /\ products = { p \in ProductRows : p.id = 1 }
    /\ inventory = { InventoryRow(1, 1, 10) }
    /\ sales = {}
    /\ sale_items = {}
    /\ sales_id_seq = 1
    /\ inventory_id_seq = 2
    /\ locks = {}
    /\ pc = [w \in Workers |-> "idle"]
    /\ req = [w \in Workers |-> NoReq]
    /\ sess = [w \in Workers |-> NewSession]
    /\ resp = [w \in Workers |-> NoResp]
    /\ started = 0
    /\ products_id_seq = 4
    /\ export_access \in { {}, {PaidWeek} }
    /\ export_access_id_seq = 2
    /\ now = 0

NextGate ==
    \/ Tick
    \/ \E w \in Workers :
        \/ ScenarioBegin(w)
        \/ CreateSaleLookup(w)
        \/ CreateSaleInsert(w)
        \/ CreateSaleItem(w)
        \/ CreateSaleLock(w)
        \/ CreateSaleCommit(w)

\* The walk-through of SpecScenario for a business without ExportAccess rows,
\* with an active one and, as days pass, with an expired one.
SpecGate == InitGate /\ [][NextGate]_vars

\* Sales of business 1 over products 1 and 2, in both orders.
WaitSales ==
    [business_id : {1}, request_id : RequestIds,
     items : { << [product_id |-> 1, quantity |-> 1] >>,
               << [product_id |-> 1, quantity |-> 1], [product_id |-> 2, quantity |-> 1] >>,
               << [product_id |-> 2, quantity |-> 1], [product_id |-> 1, quantity |-> 1] >> }]

WaitCreateSaleBegin(w) == CreateSaleBeginWith(w, WaitSales, MaxRequests)

\* Time passes while a request waits at its SELECT ... FOR UPDATE (lines
\* 98-103): the statement has no NOWAIT and no timeout, so the wait ends only
\* when the holder's transaction ends or the database aborts a deadlock.
WaitTick ==
    /\ \E w \in Workers : WaitsForRows(w) # {}
    /\ Tick

NextWait ==
    \/ WaitTick
    \/ \E w \in Workers :
        \/ WaitCreateSaleBegin(w)
        \/ CreateSaleLookup(w)
        \/ CreateSaleInsert(w)
        \/ CreateSaleItem(w)
        \/ CreateSaleLock(w)
        \/ CreateSaleDeadlock(w)
        \/ CreateSaleCommit(w)

\* Concurrent sales of the same products with the clock running while one of
\* them waits for a row lock.
SpecWait == Init /\ [][NextWait]_vars

\* The JSON bodies of POST /sales as clients send them: a request_id and the
\* items.
SaleBodies ==
    [business_id : Businesses, request_id : RequestIds,
     items : { NoItems,
               << [product_id |-> 1, quantity |-> 1] >>,
               << [product_id |-> 1, quantity |-> MaxQuantity] >>,
               << [product_id |-> 2, quantity |-> 1] >>,
               << [product_id |-> 1, quantity |-> 1], [product_id |-> 1, quantity |-> 1] >>,
               << [product_id |-> 1, quantity |-> 1], [product_id |-> 2, quantity |-> 1] >> }]

\* SaleCreate (schemas/sale.py:12-13): the model declares items only, and a
\* field of the body it does not declare is ignored.
SaleCreate(body) == [items |-> body.items]

\* POST /sales as FastAPI serves it: the body is parsed into sale_data, a
\* SaleCreate, and create_sale runs on it.  The checks of the list (lines
\* 45-50) read sale_data.items; the idempotency lookup reads
\* sale_data.request_id (line 59), outside the try block: on an object without
\* that attribute it raises AttributeError, which nothing catches.
PostSales(w) ==
    /\ Free(w)
    /\ started < MaxRequests
    /\ \E body \in SaleBodies :
         LET sale_data == SaleCreate(body)
         IN  /\ req' = [req EXCEPT ![w] = [NoReq EXCEPT !.op = "create_sale",
                                                       !.business_id = body.business_id,
                                                       !.request_id = body.request_id,
                                                       !.items = body.items]]
             /\ started' = started + 1
             /\ UNCHANGED outside
             /\ IF sale_data.items = NoItems
                THEN Reject(w, 400, "Sale must contain items")
                ELSE IF DuplicateProducts(sale_data.items)
                THEN Reject(w, 400, "Duplicate products in sale are not allowed")
                ELSE IF "request_id" \notin DOMAIN sale_data
                THEN Reject(w, 500, "Internal Server Error")
                ELSE /\ pc' = [pc EXCEPT ![w] = "lookup"]
                     /\ resp' = [resp EXCEPT ![w] = NoResp]
                     /\ sess' = [sess EXCEPT ![w] = NewSession]
                     /\ UNCHANGED << db, sales_id_seq, inventory_id_seq, locks >>

NextHttp ==
    \E w \in Workers :
        \/ PostSales(w)
        \/ ListSales(w, Businesses)
        \/ GetSale(w, Businesses, {1, 2})

\* POST /sales and the reads of sales over HTTP, the request bodies parsed by
\* the schemas of schemas/sale.py.
SpecHttp == Init /\ [][NextHttp]_vars

\* Deliveries to the webhook: paid weeks of business 1 under two references,
\* a paid month, and one delivery for each check of the handler to refuse.
WebhookDeliveries ==
    LET week == [signature |-> "valid", event |-> "charge.success", business_id |-> 1,
                 period_type |-> "weekly", amount |-> 15000, reference |-> "t1"]
        month == [week EXCEPT !.period_type = "monthly", !.amount = 50000,
                              !.reference = "t2"]
    IN  { week,
          [week EXCEPT !.reference = "t3"],
          month,
          [week EXCEPT !.signature = "missing"],
          [week EXCEPT !.signature = "invalid"],
          [week EXCEPT !.event = "charge.failed"],
          [week EXCEPT !.business_id = 0],
          [week EXCEPT !.business_id = 9],
          [week EXCEPT !.period_type = "yearly"],
          [week EXCEPT !.reference = ""],
          [week EXCEPT !.amount = 50000],
          [month EXCEPT !.amount = 15000] }

WebhookDeliveryBegin(w) == WebhookBeginWith(w, WebhookDeliveries)

NextWebhook ==
    \/ Tick
    \/ \E w \in Workers :
        \/ WebhookDeliveryBegin(w)
        \/ WebhookRead(w)
        \/ WebhookCommit(w)

\* The payment webhook alone, served by concurrent workers as days pass.
SpecWebhook == InitEntitlement /\ [][NextWebhook]_vars

\* ------------------------------------------------------------------ claims

\* Worker w takes a step.
Acts(w) ==
    \/ pc'[w] # pc[w]
    \/ req'[w] # req[w]
    \/ resp'[w] # resp[w]
    \/ sess'[w] # sess[w]

\* The sum of line_total over a set of sale_items rows.
RECURSIVE SumLineTotals(_)
SumLineTotals(rows) ==
    IF rows = {} THEN 0
    ELSE LET r == CHOOSE x \in rows : TRUE
         IN  r.line_total + SumLineTotals(rows \ {r})

\* The sum of quantity over a set of sale_items rows.
RECURSIVE SumQuantities(_)
SumQuantities(rows) ==
    IF rows = {} THEN 0
    ELSE LET r == CHOOSE x \in rows : TRUE
         IN  r.quantity + SumQuantities(rows \ {r})

\* C1: the committed sales hold at most one Sale for each pair
\* (business_id, request_id), whatever create_sale requests ran and however
\* they interleaved.
C1_OneSalePerKey ==
    \A s, t \in sales :
        (s.business_id = t.business_id /\ s.request_id = t.request_id) => s = t

\* C1 witness: two workers served create_sale requests with the same key, both
\* passed the idempotency lookup, one committed and the other's INSERT was
\* refused.
C1_Witness ==
    /\ pc[1] = "done" /\ pc[2] = "done"
    /\ req[1].op = "create_sale" /\ req[2].op = "create_sale"
    /\ req[1].business_id = req[2].business_id
    /\ req[1].request_id = req[2].request_id
    /\ resp[1].status = 201 /\ resp[2].status = 500
    /\ \E s \in sales : s.business_id = req[1].business_id /\ s.request_id = req[1].request_id

\* A committed Sale holds the key.
KeyCommitted(business_id, request_id) ==
    \E s \in sales : s.business_id = business_id /\ s.request_id = request_id

\* Two lines of the list name one product.
RepeatsProduct(items) ==
    \E i, j \in 1..Len(items) : i # j /\ items[i].product_id = items[j].product_id

\* The product belongs to the business.
Owned(product_id, business_id) ==
    \E p \in products : p.id = product_id /\ p.business_id = business_id

\* The (product_id, quantity) lines of a response's items.
LinesOf(items) ==
    [ n \in 1..Len(items) |-> [product_id |-> items[n].product_id, quantity |-> items[n].quantity] ]

\* C2: once a Sale is committed for a key, a create_sale of the same business
\* with that request_id and a non-empty, duplicate-free item list passes the
\* item checks, and its lookup returns the committed Sale (id, total_amount,
\* items) and changes no table: stock is decremented once for the key.
C2_ReplayReturnsFirst ==
    [][ \A w \in Workers :
          /\ ( /\ Free(w) /\ started' # started
                /\ req'[w].op = "create_sale"
                /\ req'[w].items # NoItems /\ ~RepeatsProduct(req'[w].items)
                /\ KeyCommitted(req'[w].business_id, req'[w].request_id) )
             => (pc'[w] = "lookup" /\ db' = db)
          /\ ( /\ pc[w] = "lookup" /\ Acts(w)
                /\ KeyCommitted(req[w].business_id, req[w].request_id) )
             => /\ pc'[w] = "done"
                /\ resp'[w].status = 201
                /\ \E s \in sales :
                      /\ s.business_id = req[w].business_id
                      /\ s.request_id = req[w].request_id
                      /\ resp'[w].body = SaleResponse(s)
                /\ db' = db
                /\ locks' = locks ]_vars

\* C2 witness: a request was answered from the lookup with a committed Sale
\* whose lines differ from the lines the request carried.
C2_Witness ==
    \E w \in Workers :
        /\ pc[w] = "done" /\ req[w].op = "create_sale"
        /\ resp[w].status = 201
        /\ LinesOf(resp[w].body.items) # req[w].items
        /\ \E s \in sales : s.id = resp[w].body.id /\ s.request_id = req[w].request_id

\* C3: every committed Inventory row has quantity_available >= 0, and so has
\* every Inventory object a transaction has changed and not yet committed: no
\* handler ever asks the table for a negative quantity.
C3_StockNonNegative ==
    /\ \A i \in inventory : i.quantity_available >= 0
    /\ \A w \in Workers : \A d \in sess[w].dirty : d.quantity_available >= 0

\* C3 witness: a sale has sold a product out (its committed row stands at 0)
\* and an update_inventory request has been answered.
C3_Witness ==
    /\ \E i \in inventory :
         /\ i.quantity_available = 0
         /\ \E r \in sale_items : r.product_id = i.product_id
    /\ \E w \in Workers :
         pc[w] = "done" /\ req[w].op = "update_inventory" /\ resp[w].status = 200

\* C4: every committed Sale has total_amount equal to the sum of line_total
\* over its committed SaleItems, each of which has quantity > 0 and
\* line_total = selling_price * quantity.
C4_TotalIsSumOfLines ==
    \A s \in sales :
        LET rows == { r \in sale_items : r.sale_id = s.id }
        IN  /\ s.total_amount = SumLineTotals(rows)
            /\ \A r \in rows : r.quantity > 0 /\ r.line_total = r.selling_price * r.quantity

\* C4 witness: a committed Sale of two lines.
C4_Witness ==
    \E s \in sales : Cardinality({ r \in sale_items : r.sale_id = s.id }) = 2

\* C5: a create_sale request that fails commits nothing: each of its steps
\* leaves the four tables as they were, the only step of a create_sale that
\* changes them being the commit answered with 201; and after a failure no
\* Sale carries the id of the request's placeholder.
C5_FailureChangesNothing ==
    [][ \A w \in Workers :
          (req'[w].op = "create_sale" /\ Acts(w)) =>
              /\ db' = db \/ (pc[w] = "commit" /\ pc'[w] = "done" /\ resp'[w].status = 201)
              /\ (pc'[w] = "done" /\ resp'[w].status # 201) =>
                    /\ db' = db
                    /\ \A s \in sales' : sess[w].sale_id # s.id ]_vars

\* C5 witness: requests ran one after the other, and the last, of two lines,
\* failed for stock on its second line after the first line, which the stock
\* covers, had been decremented in the session.
C5_Witness ==
    /\ pc[1] = "done" /\ pc[2] = "idle"
    /\ req[1].op = "create_sale" /\ Len(req[1].items) = 2
    /\ resp[1].status = 400 /\ resp[1].detail = "Insufficient stock"
    /\ \E i \in inventory :
         /\ i.product_id = req[1].items[1].product_id
         /\ i.quantity_available >= req[1].items[1].quantity

ScenarioStock == (CHOOSE i \in inventory : i.product_id = 1).quantity_available

\* The receipt of a sale of 4 units of product 1 at its selling price.
IsFourUnitReceipt(body) ==
    /\ body.total_amount = 4 * (CHOOSE p \in products : p.id = 1).selling_price
    /\ LinesOf(body.items) = << [product_id |-> 1, quantity |-> 4] >>
    /\ \E s \in sales : s.id = body.id /\ s.request_id = "r1"
                        /\ s.total_amount = body.total_amount

RefusedInLoop(items, business_id) ==
    \E n \in 1..Len(items) :
        items[n].quantity <= 0 \/ ~Owned(items[n].product_id, business_id)

\* C11 (as amended): when a Sale is committed for the key, a create_sale whose
\* list is not empty and names no product twice is answered 201 with that
\* Sale whatever its lines are, lines with a non-positive quantity or an
\* unknown product included: the lookup step examines no line, inserts no
\* placeholder, takes no lock and changes no table.
C11_ReplaySkipsLineChecks ==
    [][ \A w \in Workers :
          ( /\ pc[w] = "lookup" /\ Acts(w)
            /\ KeyCommitted(req[w].business_id, req[w].request_id) )
          => LET first == CHOOSE s \in sales : /\ s.business_id = req[w].business_id
                                               /\ s.request_id = req[w].request_id
             IN  /\ pc'[w] = "done"
                 /\ resp'[w].status = 201 /\ resp'[w].detail = ""
                 /\ resp'[w].body.id = first.id
                 /\ resp'[w].body.total_amount = first.total_amount
                 /\ resp'[w].body.items = ItemsOf(first.id)
                 /\ sess'[w] = NewSession
                 /\ sales_id_seq' = sales_id_seq
                 /\ db' = db
                 /\ \A l \in locks' : l[2] # w ]_vars

\* C11 witness: a request carrying a line the loop would refuse was answered
\* 201 with the Sale committed for its key.
C11_Witness ==
    \E w \in Workers :
        /\ pc[w] = "done" /\ req[w].op = "create_sale"
        /\ RefusedInLoop(req[w].items, req[w].business_id)
        /\ resp[w].status = 201
        /\ \E s \in sales : /\ s.id = resp[w].body.id
                            /\ s.business_id = req[w].business_id
                            /\ s.request_id = req[w].request_id

\* C11 as stated: a create_sale arriving with a key for which a Sale is
\* committed is not refused, whatever its item list (an empty list and
\* repeated product ids included).
C11_ReplayAnyPayload ==
    [][ \A w \in Workers :
          ( /\ Free(w) /\ started' # started
            /\ req'[w].op = "create_sale"
            /\ KeyCommitted(req'[w].business_id, req'[w].request_id) )
          => (pc'[w] = "done" => resp'[w].status = 201) ]_vars

\* C12: no two committed Inventory rows have one product, and an add_inventory
\* step for a product that has a committed row of the caller's business
\* creates nothing and ends the request refused: 400 "Inventory already
\* exists" when the handler reads the row, the unique index's error (500) when
\* a concurrent add_inventory committed the row after the handler's read.
C12_OneInventoryPerProduct ==
    [][ /\ \A i, j \in inventory' : i.product_id = j.product_id => i = j
        /\ \A w \in Workers :
             ( /\ Acts(w) /\ pc[w] \in {"add_read", "add_commit"}
               /\ Owned(req[w].product_id, req[w].business_id)
               /\ \E i \in inventory : i.product_id = req[w].product_id )
             => /\ inventory' = inventory
                /\ pc'[w] = "done"
                /\ IF pc[w] = "add_read"
                   THEN resp'[w].status = 400 /\ resp'[w].detail = "Inventory already exists"
                   ELSE resp'[w].status = 500 ]_vars

\* C12 witness: two add_inventory requests for one product ran concurrently;
\* one created the row and the other was refused at its INSERT.
C12_Witness ==
    \E w, v \in Workers :
        /\ w # v /\ pc[w] = "done" /\ pc[v] = "done"
        /\ req[w].op = "add_inventory" /\ req[v].op = "add_inventory"
        /\ req[w].product_id = req[v].product_id
        /\ resp[w].status = 201 /\ resp[v].status = 500
        /\ The(req[v].quantity_available) >= 0 /\ The(req[v].low_stock_threshold) >= 0
        /\ Cardinality({ i \in inventory : i.product_id = req[w].product_id }) = 1

\* C13 as stated: every committed Product has selling_price >= cost_price.
C13_SellingNotBelowCost ==
    \A p \in products : p.selling_price >= p.cost_price

\* C14: no step removes or changes a committed Sale or SaleItem: every row of
\* sales and sale_items is in the table after the step as it was before it,
\* a row that is new has an id no row had, and no SaleItem is added to a Sale
\* that was committed before the step.
C14_CommittedSalesImmutable ==
    [][ /\ sales \subseteq sales'
        /\ sale_items \subseteq sale_items'
        /\ \A s \in sales' \ sales : \A t \in sales : t.id # s.id
        /\ \A r \in sale_items' \ sale_items :
              \A t \in sales : t.id # r.sale_id ]_vars

\* C14 witness: after a sale was committed the product's selling_price was
\* changed, and the SaleItem carries the price of the sale.
C14_Witness ==
    \E w \in Workers :
        /\ pc[w] = "done" /\ req[w].op = "update_product" /\ resp[w].status = 200
        /\ req[w].selling_price # None
        /\ \E r \in sale_items, p \in products :
              /\ p.id = r.product_id /\ p.id = req[w].product_id
              /\ p.selling_price = The(req[w].selling_price)
              /\ r.selling_price # p.selling_price
              /\ r.line_total = r.selling_price * r.quantity

\* C15: a step changes the quantity_available of an Inventory row only as
\* the commit of a create_sale that holds the row's lock, to a smaller
\* value, or as the commit of an update_inventory, to the value of its body;
\* and a row is created only by add_inventory, with the quantity of its body.
\* Every other step (product create, update and delete, the reads, failed
\* requests) leaves the quantity of every row it keeps as it was.
C15_QuantityWriters ==
    [][ /\ \A i \in inventory, j \in inventory' :
              (j.id = i.id /\ j.quantity_available # i.quantity_available) =>
                  \E w \in Workers :
                      /\ Acts(w) /\ pc'[w] = "done"
                      /\ \/ /\ req[w].op = "create_sale" /\ pc[w] = "commit"
                            /\ resp'[w].status = 201
                            /\ << i.id, w >> \in locks
                            /\ j.quantity_available < i.quantity_available
                         \/ /\ req[w].op = "update_inventory" /\ pc[w] = "update_commit"
                            /\ req[w].product_id = i.product_id
                            /\ j.quantity_available = The(req[w].quantity_available)
        /\ \A j \in inventory' :
              (\A i \in inventory : i.id # j.id) =>
                  \E w \in Workers :
                      /\ Acts(w) /\ req[w].op = "add_inventory" /\ pc[w] = "add_commit"
                      /\ j.product_id = req[w].product_id
                      /\ j.quantity_available = The(req[w].quantity_available) ]_vars

\* C15 witness: a sale has decremented a row, and a product was created, a
\* product updated or a product deleted by the other request.
C15_Witness ==
    \E w, v \in Workers :
        /\ w # v /\ pc[w] = "done" /\ pc[v] = "done"
        /\ req[w].op = "create_sale" /\ resp[w].status = 201
        /\ req[v].op \in {"create_product", "update_product", "delete_product"}
        /\ resp[v].status \in {200, 201, 204}
        /\ \E i \in inventory : /\ i.product_id = req[w].items[1].product_id
                                /\ i.quantity_available
                                     = MaxQuantity - req[w].items[1].quantity

RowsOfReference(rows, reference) ==
    { a \in rows : a.transaction_reference = reference }

\* C17: no two ExportAccess rows have one transaction_reference; a delivery
\* that reaches the database when a row of its reference is committed leaves
\* the table as it is (answered "already_processed" at its lookup, or refused
\* by the unique constraint at its INSERT when a concurrent delivery committed
\* first); and once a delivery of a reference was answered, one row of the
\* reference exists.
C17_OneRowPerReference ==
    [][ /\ \A a, b \in export_access' :
              a.transaction_reference = b.transaction_reference => a = b
        /\ \A w \in Workers :
              ( /\ Acts(w) /\ pc[w] \in {"webhook_read", "webhook_commit"}
                /\ RowsOfReference(export_access, The(req[w].payload).reference) # {} )
              => /\ export_access' = export_access
                 /\ pc'[w] = "done"
                 /\ IF pc[w] = "webhook_read"
                    THEN resp'[w].status = 200 /\ resp'[w].detail = "already_processed"
                    ELSE resp'[w].status = 500
        /\ \A w \in Workers :
              ( /\ Acts(w) /\ pc[w] \in {"webhook_read", "webhook_commit"}
                /\ pc'[w] = "done" )
              => Cardinality(RowsOfReference(export_access',
                                             The(req[w].payload).reference)) = 1 ]_vars

\* C17 witness: two deliveries of one reference were answered, the first with
\* "subscription_activated" and the second with "already_processed", and one
\* row of the reference exists.
C17_Witness ==
    \E w, v \in Workers :
        /\ w # v /\ pc[w] = "done" /\ pc[v] = "done"
        /\ req[w].op = "paystack_webhook" /\ req[v] = req[w]
        /\ resp[w].detail = "subscription_activated"
        /\ resp[v].detail = "already_processed"
        /\ Cardinality(RowsOfReference(export_access, The(req[w].payload).reference)) = 1

\* C18: the walk-through requests, served one after the other, have one
\* outcome in every entitlement state (no ExportAccess row, an active row, an
\* expired row) and on every day: the response, the sales, the sale items
\* and the stock after the n-th request are those of the request sequence
\* alone, and no step of a create_sale changes an ExportAccess row.
C18_SaleIgnoresEntitlement ==
    [][ /\ (\E w \in Workers : Acts(w)) => export_access' = export_access
        /\ (pc'[1] = "done" /\ \A v \in Workers \ {1} : pc'[v] = "idle") =>
              /\ resp'[1].status = IF started' = 2 THEN 400 ELSE 201
              /\ resp'[1].detail = IF started' = 2 THEN "Insufficient stock" ELSE ""
              /\ resp'[1].body = IF started' = 2 THEN NoBody
                                   ELSE [id |-> 1, total_amount |-> 12,
                                         items |-> << [product_id |-> 1, quantity |-> 4,
                                                       selling_price |-> 3,
                                                       line_total |-> 12] >>]
              /\ { [id |-> s.id, request_id |-> s.request_id,
                    total_amount |-> s.total_amount] : s \in sales' }
                    = { [id |-> 1, request_id |-> "r1", total_amount |-> 12] }
              /\ Cardinality(sale_items') = 1
              /\ \A i \in inventory' : i.quantity_available = 6 ]_vars

\* C18 witness: the resend of the first key was answered with the first sale
\* for a business whose ExportAccess row has expired.
C18_Witness ==
    /\ started = 3 /\ pc[1] = "done" /\ pc[2] = "idle"
    /\ resp[1].status = 201
    /\ export_access # {} /\ get_active_subscription(1) = {}

\* A step that answers list_sales or get_sale for a business shows, to a
\* business without an active subscription, the sales created within `days`
\* days and no other, and to a business with one, every sale of the business.
HistoryWindow(days) ==
    \A w \in Workers :
        (Free(w) /\ started' = started + 1 /\ req'[w].op \in {"list_sales", "get_sale"}) =>
            LET b == req'[w].business_id
                visible == { s \in sales : /\ s.business_id = b
                                           /\ \/ get_active_subscription(b) # {}
                                              \/ now - s.created_at <= 2 * days }
                asked == { s \in sales : s.business_id = b /\ s.id = req'[w].sale_id }
            IN  /\ req'[w].op = "list_sales" =>
                      resp'[w].body = { SaleResponse(s) : s \in visible }
                /\ req'[w].op = "get_sale" =>
                      \A s \in asked :
                          /\ s \in visible => /\ resp'[w].status = 200
                                               /\ resp'[w].body = SaleResponse(s)
                          /\ s \notin visible => /\ resp'[w].status = 402
                                                  /\ resp'[w].body = NoBody

\* C19: a business without an active subscription sees through list_sales
\* and get_sale exactly the sales of the last 7 days (older ones are left out
\* of the list and refused with 402 by id); a business with an active
\* subscription sees all of its sales through both.
C19_SevenDayHistory == [][HistoryWindow(7)]_vars

\* The rows of the four tables that do not belong to business b.
RowsOfOthers(b) ==
    [products |-> { p \in products : p.business_id # b },
     inventory |-> { i \in inventory : ~Owned(i.product_id, b) },
     sales |-> { x \in sales : x.business_id # b },
     sale_items |-> { r \in sale_items :
                        ~\E x \in sales : x.id = r.sale_id /\ x.business_id = b }]

\* The request of worker w addresses, by id, a row that business b does not
\* own: a row of another business or no row at all.
Foreign(w, b) ==
    CASE req'[w].op \in {"update_product", "delete_product", "add_inventory"} ->
           ~Owned(req'[w].product_id, b)
      [] req'[w].op = "update_inventory" ->
           ~(Owned(req'[w].product_id, b)
               /\ \E i \in inventory : i.product_id = req'[w].product_id)
      [] req'[w].op = "get_sale" ->
           ~\E x \in sales : x.id = req'[w].sale_id /\ x.business_id = b
      [] OTHER -> FALSE

\* C20: in every step of a request authenticated for business b, the rows of
\* other businesses in products, inventory, sales and sale_items stay as they
\* are and every row added or changed belongs to b; a response body holds
\* rows of b only; and a product, inventory row or sale addressed by id that
\* b does not own is answered 404 with the endpoint's one not-found detail,
\* nothing written, whether the row is another business's or does not exist.
C20_TenantIsolation ==
    [][ \A w \in Workers : Acts(w) =>
          LET b == req'[w].business_id
              others == RowsOfOthers(b)
              mine(product_id) == \E p \in products' : p.id = product_id /\ p.business_id = b
              my_sale(id) == \E x \in sales' : x.id = id /\ x.business_id = b
              lookup == \/ pc[w] \in {"update_product_read", "delete_product_read",
                                       "add_read", "update_read"}
                        \/ req'[w].op = "get_sale"
          IN  /\ others.products \subseteq products'
              /\ others.inventory \subseteq inventory'
              /\ others.sales \subseteq sales'
              /\ others.sale_items \subseteq sale_items'
              /\ \A p \in products' \ products : p.business_id = b
              /\ \A i \in inventory' \ inventory : mine(i.product_id)
              /\ \A x \in sales' \ sales : x.business_id = b
              /\ \A r \in sale_items' \ sale_items : my_sale(r.sale_id) /\ mine(r.product_id)
              /\ (req'[w].op = "list_products" /\ pc'[w] = "done") =>
                    \A p \in resp'[w].body : p.business_id = b
              /\ (req'[w].op = "list_inventory" /\ pc'[w] = "done") =>
                    \A i \in resp'[w].body : mine(i.product_id)
              /\ (req'[w].op = "list_sales" /\ pc'[w] = "done") =>
                    \A x \in resp'[w].body : my_sale(x.id)
              /\ (req'[w].op \in {"get_sale", "create_sale"} /\ pc'[w] = "done"
                     /\ resp'[w].status \in {200, 201}) =>
                    my_sale(resp'[w].body.id)
              /\ (lookup /\ Foreign(w, b)) =>
                    /\ pc'[w] = "done"
                    /\ resp'[w].status = 404
                    /\ resp'[w].detail =
                          CASE req'[w].op = "update_inventory" -> "Inventory not found"
                            [] req'[w].op = "get_sale" -> "Sale not found"
                            [] OTHER -> "Product not found"
                    /\ resp'[w].body = NoBody
                    /\ db' = db ]_vars

\* C20 witness: business 2 addressed the inventory row of product 1, which
\* belongs to business 1 and is still there, and was answered 404.
C20_Witness ==
    \E w \in Workers :
        /\ req[w].op = "update_inventory" /\ req[w].business_id = 2
        /\ req[w].product_id = 1
        /\ pc[w] = "done" /\ resp[w].status = 404
        /\ Owned(1, 1) /\ \E i \in inventory : i.product_id = 1

\* The Inventory rows that the SELECT ... FOR UPDATE of worker w, standing at
\* it, asks for.
RowsAskedFor(w) ==
    IF pc[w] = "lock" /\ req[w].op = "create_sale" /\ sess[w].product # {}
    THEN { i.id : i \in { j \in inventory : j.product_id = (The(sess[w].product)).id } }
    ELSE {}

\* C21: a row lock taken by a create_sale is held by that worker alone until
\* its transaction ends (commit or rollback); while it is held, another
\* create_sale standing at its SELECT ... FOR UPDATE of the row does not get
\* past it (its only step is to be aborted as a deadlock victim), and the
\* row's quantity_available changes only in the commit of the holder.
C21_LockHeldToEnd ==
    [][ \A l \in locks :
          LET r == l[1]
              v == l[2]
          IN  /\ req[v].op = "create_sale"
              /\ l \in locks' \/ (pc'[v] = "done" /\ \A k \in locks' : k[2] # v)
              /\ \A w \in Workers \ {v} : << r, w >> \notin locks /\ << r, w >> \notin locks'
              /\ \A w \in Workers \ {v} :
                    (r \in RowsAskedFor(w) /\ Acts(w)) =>
                        /\ pc'[w] = "done" /\ resp'[w].status = 500
                        /\ db' = db
              /\ \A i \in inventory :
                    i.id = r => \/ i \in inventory'
                                \/ pc[v] = "commit" /\ pc'[v] = "done" ]_vars

\* C21 witness: one create_sale holds the lock of a row and has not ended,
\* and a second create_sale of the same product stands at its SELECT ... FOR
\* UPDATE of that row.
C21_Witness ==
    \E w, v \in Workers :
        /\ w # v
        /\ pc[v] \in {"item", "lock", "commit"}
        /\ \E r \in RowsAskedFor(w) : << r, v >> \in locks

\* C22: a create_sale in its loop holds the locks of the Inventory rows of
\* the lines before the one it is at, in the order of the request's list, and
\* of no other row.
C22_LocksInItemOrder ==
    \A w \in Workers :
        (req[w].op = "create_sale" /\ pc[w] \in {"item", "lock", "commit"}) =>
            { l[1] : l \in { k \in locks : k[2] = w } }
                = { i.id : i \in { j \in inventory :
                        \E n \in 1..(sess[w].idx - 1) :
                            j.product_id = req[w].items[n].product_id } }

\* C22 witness: two requests name the same two products in opposite orders;
\* each holds the lock of its first product's row and stands at the SELECT
\* ... FOR UPDATE of the row the other holds.
C22_Witness ==
    \E w, v \in Workers :
        /\ w # v
        /\ Len(req[w].items) = 2 /\ Len(req[v].items) = 2
        /\ req[w].items[1].product_id = req[v].items[2].product_id
        /\ req[w].items[2].product_id = req[v].items[1].product_id
        /\ \E r \in RowsAskedFor(w) : << r, v >> \in locks
        /\ \E r \in RowsAskedFor(v) : << r, w >> \in locks

C24_ConcurrentDuplicateSucceeds ==
    \A w, v \in Workers :
        ( /\ w # v
          /\ pc[w] = "done" /\ pc[v] = "done"
          /\ req[w].op = "create_sale" /\ req[v] = req[w]
          /\ resp[w].status = 201 )
        => /\ resp[v].status = 201
           /\ resp[v].body = resp[w].body

\* A step of a request of one of `ops` whose body gives a negative
\* quantity_available or a negative low_stock_threshold leaves the inventory
\* table as it is, and the request is answered 400 (or 404 when the caller
\* has no such product or row).
NegativeRejected(ops) ==
    \A w \in Workers :
        ( /\ Acts(w)
          /\ req'[w].op \in ops
          /\ \/ \E q \in req'[w].quantity_available : q < 0
             \/ \E t \in req'[w].low_stock_threshold : t < 0 )
        => /\ inventory' = inventory
           /\ pc'[w] = "done" => resp'[w].status \in {400, 404}

\* C25: add_inventory and update_inventory with a negative quantity_available
\* or a negative low_stock_threshold are rejected with 400 and leave the
\* Inventory rows unchanged, also when a valid quantity_available comes with
\* a negative low_stock_threshold.
C25_NegativeValuesRejected == [][NegativeRejected({"add_inventory", "update_inventory"})]_vars

\* C26: a create_sale request with a non-positive quantity on some line is
\* rejected before it has changed anything: its transaction never holds an
\* inserted placeholder Sale, a row lock or a decremented Inventory object.
C26_QuantityCheckedFirst ==
    \A w \in Workers :
        ( /\ req[w].op = "create_sale"
          /\ \E n \in 1..Len(req[w].items) : req[w].items[n].quantity <= 0 )
        => /\ sess[w].sale_id = 0
           /\ sess[w].dirty = {}
           /\ \A l \in locks : l[2] # w

\* C27: a create_sale request whose body carries a request_id and a list the
\* handler accepts (not empty, no product twice) is served with that
\* request_id: it is not refused for the want of it, and when it is answered
\* 201 a committed Sale of the business stores the body's request_id.
C27_RequestIdCarried ==
    \A w \in Workers :
        ( /\ pc[w] = "done" /\ req[w].op = "create_sale"
          /\ req[w].request_id \in RequestIds
          /\ req[w].items # NoItems
          /\ ~RepeatsProduct(req[w].items) )
        => /\ resp[w].status # 500
           /\ resp[w].status = 201 =>
                 \E x \in sales : /\ x.business_id = req[w].business_id
                                   /\ x.request_id = req[w].request_id
                                   /\ x.id = resp[w].body.id

\* C28: a step adds an ExportAccess row only as the commit of a delivery with
\* a verified signature, the event charge.success, an existing business, a
\* period_type of weekly or monthly and the amount of that period type
\* (15000 weekly, 50000 monthly), and the row is of that business, period
\* type and reference; no step of any other delivery changes the table.
C28_OnlyVerifiedPayments ==
    [][ (export_access' # export_access) =>
          \E w \in Workers :
             /\ req[w].op = "paystack_webhook" /\ Acts(w)
             /\ LET d == The(req[w].payload)
                IN  /\ d.signature = "valid"
                    /\ d.event = "charge.success"
                    /\ d.business_id \in Businesses
                    /\ d.reference # ""
                    /\ \/ d.period_type = "weekly" /\ d.amount = 15000
                       \/ d.period_type = "monthly" /\ d.amount = 50000
                    /\ export_access \subseteq export_access'
                    /\ Cardinality(export_access' \ export_access) = 1
                    /\ \A a \in export_access' \ export_access :
                          /\ a.business_id = d.business_id
                          /\ a.period_type = d.period_type
                          /\ a.transaction_reference = d.reference ]_vars

\* C28 witness: a paid month was turned into a row, and a delivery with the
\* weekly amount for a month was refused.
C28_Witness ==
    \E w, v \in Workers :
        /\ w # v /\ pc[w] = "done" /\ pc[v] = "done"
        /\ req[w].op = "paystack_webhook" /\ req[v].op = "paystack_webhook"
        /\ resp[w].detail = "subscription_activated"
        /\ (The(req[w].payload)).period_type = "monthly"
        /\ \E a \in export_access : a.transaction_reference = (The(req[w].payload)).reference
        /\ (The(req[v].payload)).period_type = "monthly"
        /\ (The(req[v].payload)).amount = 15000
        /\ resp[v].status = 400

\* C29: every committed Sale has at least one SaleItem, its SaleItems name
\* pairwise distinct products that belong to the Sale's business, and its
\* total_amount is positive: no committed row is the zero-total placeholder.
C29_CommittedSalesComplete ==
    \A x \in sales :
        LET rows == { r \in sale_items : r.sale_id = x.id }
        IN  /\ rows # {}
            /\ \A r, q \in rows : r # q => r.product_id # q.product_id
            /\ \A r \in rows : Owned(r.product_id, x.business_id)
            /\ x.total_amount > 0

\* C29 witness: a Sale of two lines is committed while another create_sale
\* holds its flushed placeholder.
C29_Witness ==
    /\ \E x \in sales : Cardinality({ r \in sale_items : r.sale_id = x.id }) = 2
    /\ \E w \in Workers : sess[w].sale_id # 0 /\ pc[w] \in {"item", "lock", "commit"}

\* C30: the [start_date, end_date] ranges of two ExportAccess rows of one
\* business and one period_type do not overlap.
C30_PeriodsDoNotOverlap ==
    \A a, b \in export_access :
        (a # b /\ a.business_id = b.business_id /\ a.period_type = b.period_type) =>
            a.end_date < b.start_date \/ b.end_date < a.start_date

====
